---- MODULE Spec2Model ----
(***************************************************************************)
(* StripBuilder / Strip of egui_extras (src/egui_extras/src/strip.rs).     *)
(*                                                                         *)
(* A run is one layout pass: a StripBuilder collects Size hints, is        *)
(* finalized by horizontal or vertical (which resolves the hints into      *)
(* lengths and hands a Strip to the caller's closure), the closure asks    *)
(* for cells, the Strip is dropped (draining what is left) and the Layout  *)
(* is asked for its Response.  A cell may hold a nested StripBuilder, so   *)
(* the state is a stack of such activations.                               *)
(*                                                                         *)
(* f32 lengths are kept exactly, as integers in steps of 1/Unit point.     *)
(***************************************************************************)
EXTENDS Integers, Sequences, FiniteSets, TLC

VARIABLES stack

vars == <<stack>>

\* ------------------------------------------------------------------ bounds
\* Size hints alive at once, over all builders and strips of the run.
MaxSizes == 3
\* Nesting depth of strips (1 = no nested strip).
MaxDepth == 2
\* Largest `count` passed to sizes().
MaxCount == 2

\* ------------------------------------------------------------ input values
RECURSIVE Factorial(_)
Factorial(n) == IF n <= 1 THEN 1 ELSE n * Factorial(n - 1)

\* Steps per point: every division by a number of cells is exact.
Unit == Factorial(MaxSizes)

\* The Size hints the caller may pass (the variants strip.rs names).
Size == { [kind |-> "Absolute", v |-> 40],
          [kind |-> "Remainder", v |-> 0],
          [kind |-> "RemainderMinimum", v |-> 100] }

\* What a Ui reports: available_rect_before_wrap() and spacing().item_spacing.
Ui == { [w |-> 200, h |-> 120, sx |-> 0, sy |-> 8],
        [w |-> 200, h |-> 60,  sx |-> 0, sy |-> 0],
        [w |-> 30,  h |-> 60,  sx |-> 4, sy |-> 0] }

CellDirection == {"Horizontal", "Vertical"}

\* CellSize::Absolute(len) and CellSize::Remainder.
CellSize_Absolute(len) == [kind |-> "Absolute", v |-> len]
CellSize_Remainder == [kind |-> "Remainder", v |-> 0]

\* ------------------------------------------------------------- pure helpers
Max(a, b) == IF a >= b THEN a ELSE b

RECURSIVE SumFixed(_)
SumFixed(sizing) ==
    IF sizing = <<>> THEN 0
    ELSE (IF Head(sizing).kind = "Absolute" THEN Head(sizing).v ELSE 0)
         + SumFixed(Tail(sizing))

IsFlexible(size) == size.kind \in {"Remainder", "RemainderMinimum"}

NumFlexible(sizing) == Cardinality({i \in DOMAIN sizing : IsFlexible(sizing[i])})

\* Sizing::into_lengths(length, spacing): one length per hint, in order.
\* Fixed hints keep their value; the leftover R = length - fixed - gaps is
\* split evenly over the flexible hints, 0 when R is negative; a minimum
\* clamps its own share afterwards and nothing is redistributed.
into_lengths(sizing, length, spacing) ==
    LET N == Len(sizing)
        R == length - SumFixed(sizing) - (N - 1) * spacing
        share == IF R < 0 \/ NumFlexible(sizing) = 0 THEN 0
                 ELSE (R * Unit) \div NumFlexible(sizing)
    IN [i \in 1..N |->
          CASE sizing[i].kind = "Absolute" -> sizing[i].v * Unit
            [] sizing[i].kind = "Remainder" -> share
            [] OTHER -> Max(sizing[i].v * Unit, share)]

\* ------------------------------------------------------------------- state
\* One activation: a StripBuilder (pc = "builder") and, once finalized, the
\* Strip made from it together with its Layout.
\*   ui        the Ui the builder was created on
\*   sizing    the hints added so far (kept after finalization as a record)
\*   direction, sizes   the Strip's fields
\*   lengths   what into_lengths returned (the local widths / heights)
\*   placed    the number of cells placed on the Layout (empty or add)
\*   last      the last such call, with its arguments
\*   emitted   how many of the cells the caller's closure placed
\*   rect      calls of Layout::set_rect
NoDirection == "None"

NoCall == [op |-> "none", width |-> CellSize_Remainder, height |-> CellSize_Remainder,
           clip |-> FALSE]

StripBuilder_new(ui) ==
    [pc |-> "builder", ui |-> ui, sizing |-> <<>>, direction |-> NoDirection,
     sizes |-> <<>>, lengths |-> <<>>, placed |-> 0, last |-> NoCall, emitted |-> 0,
     rect |-> 0]

Top == stack[Len(stack)]

SetTop(f) == [stack EXCEPT ![Len(stack)] = f]

RECURSIVE Declared(_)
Declared(s) == IF s = <<>> THEN 0 ELSE Len(Head(s).sizing) + Declared(Tail(s))

Init == \E ui \in Ui : stack = <<StripBuilder_new(ui)>>

\* --------------------------------------------------- StripBuilder (pure part)
\* StripBuilder::size: one more hint at the end.
size(f, s) == [f EXCEPT !.sizing = Append(@, s)]

\* Faulty variant: sizes adding one hint too few, `for _ in 1..count`.
RECURSIVE sizes_one_short(_, _, _)
sizes_one_short(f, s, count) ==
    IF count <= 1 THEN f ELSE sizes_one_short(size(f, s), s, count - 1)

\* StripBuilder::sizes: `for _ in 0..count { self.sizing.add(size) }`.
RECURSIVE sizes(_, _, _)
sizes(f, s, count) == IF count = 0 THEN f ELSE sizes(size(f, s), s, count - 1)

\* Faulty variant: horizontal with the extent of the other axis.
horizontal_other_extent(f) ==
    LET widths == into_lengths(f.sizing, f.ui.h - f.ui.sx, f.ui.sx)
    IN [f EXCEPT !.pc = "strip", !.direction = "Horizontal",
                 !.sizes = widths, !.lengths = widths]

\* Faulty variant: horizontal without the one spacing taken off the width.
horizontal_full_width(f) ==
    LET widths == into_lengths(f.sizing, f.ui.w, f.ui.sx)
    IN [f EXCEPT !.pc = "strip", !.direction = "Horizontal",
                 !.sizes = widths, !.lengths = widths]

\* Faulty variant: horizontal handing the Strip one length fewer than resolved.
horizontal_short(f) ==
    LET widths == into_lengths(f.sizing, f.ui.w - f.ui.sx, f.ui.sx)
    IN [f EXCEPT !.pc = "strip", !.direction = "Horizontal",
                 !.sizes = IF widths = <<>> THEN widths ELSE Tail(widths),
                 !.lengths = widths]

\* Faulty variant: horizontal taking the spacing off every width as well.
horizontal_less_spacing_each(f) ==
    LET widths == into_lengths(f.sizing, f.ui.w - f.ui.sx, f.ui.sx)
    IN [f EXCEPT !.pc = "strip", !.direction = "Horizontal",
                 !.sizes = [i \in DOMAIN widths |-> widths[i] - f.ui.sx * Unit],
                 !.lengths = [i \in DOMAIN widths |-> widths[i] - f.ui.sx * Unit]]

\* StripBuilder::horizontal up to the call of the closure: resolve along x
\* and create the Strip.
horizontal(f) ==
    LET widths == into_lengths(f.sizing, f.ui.w - f.ui.sx, f.ui.sx)
    IN [f EXCEPT !.pc = "strip", !.direction = "Horizontal",
                 !.sizes = widths, !.lengths = widths]

\* Faulty variant: vertical with the extent of the other axis.
vertical_other_extent(f) ==
    LET heights == into_lengths(f.sizing, f.ui.w - f.ui.sy, f.ui.sy)
    IN [f EXCEPT !.pc = "strip", !.direction = "Vertical",
                 !.sizes = heights, !.lengths = heights]

\* Faulty variant: vertical with the spacing of the other axis.
vertical_other_spacing(f) ==
    LET heights == into_lengths(f.sizing, f.ui.h - f.ui.sx, f.ui.sx)
    IN [f EXCEPT !.pc = "strip", !.direction = "Vertical",
                 !.sizes = heights, !.lengths = heights]

\* Faulty variant: vertical giving one cell of the whole height when no hint
\* was added.
vertical_default_cell(f) ==
    LET heights == IF f.sizing = <<>> THEN << (f.ui.h - f.ui.sy) * Unit >>
                   ELSE into_lengths(f.sizing, f.ui.h - f.ui.sy, f.ui.sy)
    IN [f EXCEPT !.pc = "strip", !.direction = "Vertical",
                 !.sizes = heights, !.lengths = heights]

\* StripBuilder::vertical up to the call of the closure: resolve along y.
vertical(f) ==
    LET heights == into_lengths(f.sizing, f.ui.h - f.ui.sy, f.ui.sy)
    IN [f EXCEPT !.pc = "strip", !.direction = "Vertical",
                 !.sizes = heights, !.lengths = heights]

\* ---------------------------------------------------------- Strip (pure part)
\* Faulty variant: next_cell_size taking the last length, sizes.pop().
next_cell_size_pop(f) ==
    LET n == Len(f.sizes)
    IN IF f.direction = "Horizontal"
       THEN [width |-> CellSize_Absolute(f.sizes[n]), height |-> CellSize_Remainder,
             sizes |-> SubSeq(f.sizes, 1, n - 1)]
       ELSE [width |-> CellSize_Remainder, height |-> CellSize_Absolute(f.sizes[n]),
             sizes |-> SubSeq(f.sizes, 1, n - 1)]

\* Faulty variant: next_cell_size with the horizontal arm in both directions.
next_cell_size_no_swap(f) ==
    [width |-> CellSize_Absolute(Head(f.sizes)), height |-> CellSize_Remainder,
     sizes |-> Tail(f.sizes)]

\* Strip::next_cell_size: sizes.remove(0) becomes the extent on the strip's
\* axis, the other axis fills.
next_cell_size(f) ==
    IF f.direction = "Horizontal"
    THEN [width |-> CellSize_Absolute(Head(f.sizes)), height |-> CellSize_Remainder,
          sizes |-> Tail(f.sizes)]
    ELSE [width |-> CellSize_Remainder, height |-> CellSize_Absolute(Head(f.sizes)),
          sizes |-> Tail(f.sizes)]

\* Faulty variant: empty calling Layout::empty before it asserts.
empty_late_assert(f) ==
    IF f.sizes = <<>>
    THEN [f EXCEPT !.pc = "panic", !.placed = @ + 1,
                   !.last = [op |-> "empty", width |-> CellSize_Remainder,
                             height |-> CellSize_Remainder, clip |-> FALSE]]
    ELSE LET c == next_cell_size(f)
         IN [f EXCEPT !.sizes = c.sizes,
                      !.placed = @ + 1,
                      !.last = [op |-> "empty", width |-> c.width,
                                height |-> c.height, clip |-> FALSE]]

\* Strip::empty: assert, take the next length, Layout::empty(width, height).
empty(f) ==
    IF f.sizes = <<>> THEN [f EXCEPT !.pc = "panic"]
    ELSE LET c == next_cell_size(f)
         IN [f EXCEPT !.sizes = c.sizes,
                      !.placed = @ + 1,
                      !.last = [op |-> "empty", width |-> c.width,
                                height |-> c.height, clip |-> FALSE]]

\* Faulty variant: _cell calling Layout::add before it asserts.
_cell_late_assert(f, clip) ==
    IF f.sizes = <<>>
    THEN [f EXCEPT !.pc = "panic", !.placed = @ + 1,
                   !.last = [op |-> "add", width |-> CellSize_Remainder,
                             height |-> CellSize_Remainder, clip |-> clip]]
    ELSE LET c == next_cell_size(f)
         IN [f EXCEPT !.sizes = c.sizes,
                      !.placed = @ + 1,
                      !.last = [op |-> "add", width |-> c.width,
                                height |-> c.height, clip |-> clip]]

\* Strip::_cell: assert, take the next length, Layout::add(width, height,
\* clip, add_contents).
_cell(f, clip) ==
    IF f.sizes = <<>> THEN [f EXCEPT !.pc = "panic"]
    ELSE LET c == next_cell_size(f)
         IN [f EXCEPT !.sizes = c.sizes,
                      !.placed = @ + 1,
                      !.last = [op |-> "add", width |-> c.width,
                                height |-> c.height, clip |-> clip]]

\* Faulty variant: Drop leaving the last length in the queue, `while self.sizes.len() > 1`.
drop_leaves_one(f) == IF Len(f.sizes) > 1 THEN empty(f) ELSE [f EXCEPT !.pc = "dropped"]

\* Faulty variant: a Strip without a Drop that drains.
drop_nothing(f) == [f EXCEPT !.pc = "dropped"]

\* Faulty variant: a Drop loop that places an empty cell for the first length
\* without removing it, `self.sizes[0]` for `self.sizes.remove(0)`.
drop_keeps_length(f) ==
    IF f.sizes # <<>>
    THEN [f EXCEPT !.placed = @ + 1,
                   !.last = [op |-> "empty", width |-> next_cell_size(f).width,
                             height |-> next_cell_size(f).height, clip |-> FALSE]]
    ELSE [f EXCEPT !.pc = "dropped"]

\* Drop for Strip, one turn of `while !self.sizes.is_empty() { self.empty() }`.
drop(f) == IF f.sizes # <<>> THEN empty(f) ELSE [f EXCEPT !.pc = "dropped"]

\* Layout::set_rect, the last statement of horizontal / vertical.
set_rect(f) == [f EXCEPT !.pc = "done", !.rect = @ + 1]

\* ------------------------------------------------------------------ actions
\* Every cell placed so far was placed by the caller's closure.
Emitted(f) == [f EXCEPT !.emitted = f.placed]

Size_(s) ==
    /\ Top.pc = "builder"
    /\ Declared(stack) < MaxSizes
    /\ stack' = SetTop(size(Top, s))

Sizes_(s, count) ==
    /\ Top.pc = "builder"
    /\ Declared(stack) + count <= MaxSizes
    /\ stack' = SetTop(sizes(Top, s, count))

Horizontal ==
    /\ Top.pc = "builder"
    /\ stack' = SetTop(horizontal(Top))

Vertical ==
    /\ Top.pc = "builder"
    /\ stack' = SetTop(vertical(Top))

\* A nested builder that its closure never finalizes.
Unused ==
    /\ Top.pc = "builder"
    /\ Len(stack) > 1
    /\ stack' = SetTop([Top EXCEPT !.pc = "unused"])

Empty ==
    /\ Top.pc = "strip"
    /\ stack' = SetTop(Emitted(empty(Top)))

Cell ==
    /\ Top.pc = "strip"
    /\ stack' = SetTop(Emitted(_cell(Top, FALSE)))

CellClip ==
    /\ Top.pc = "strip"
    /\ stack' = SetTop(Emitted(_cell(Top, TRUE)))

\* Faulty variant: _strip handing the closure a builder that already holds
\* the hints of the enclosing strip.
_strip_shared_sizing(clip) ==
    /\ Top.pc = "strip"
    /\ Top.sizes = <<>> \/ Len(stack) < MaxDepth
    /\ LET f == Emitted(_cell(Top, clip))
       IN stack' = IF f.pc = "panic" THEN SetTop(f)
                   ELSE Append(SetTop(f),
                               [StripBuilder_new(Top.ui) EXCEPT !.sizing = Top.sizing])

\* Strip::_strip: a cell whose contents are `strip_builder(StripBuilder::new(ui))`.
\* The Ui handed to the closure is a child of the Layout's Ui; it is taken to
\* report what the enclosing builder's Ui reported.
_strip(clip) ==
    /\ Top.pc = "strip"
    /\ Top.sizes = <<>> \/ Len(stack) < MaxDepth
    /\ LET f == Emitted(_cell(Top, clip))
       IN stack' = IF f.pc = "panic" THEN SetTop(f)
                   ELSE Append(SetTop(f), StripBuilder_new(Top.ui))

StripOp == _strip(FALSE)

\* Faulty variant: strip_noclip passing clip = false, as its name suggests.
StripNoclip_wrapped == _strip(FALSE)

StripNoclip == _strip(TRUE)

\* The closure of a nested strip cell returns into the enclosing strip.
CellReturn ==
    /\ Len(stack) > 1
    /\ Top.pc \in {"done", "unused"}
    /\ stack' = SubSeq(stack, 1, Len(stack) - 1)

\* The closure given to horizontal / vertical returns; its Strip goes out of
\* scope.
Return ==
    /\ Top.pc = "strip"
    /\ stack' = SetTop([Top EXCEPT !.pc = "drop"])

Drop ==
    /\ Top.pc = "drop"
    /\ stack' = SetTop(drop(Top))

SetRect ==
    /\ Top.pc = "dropped"
    /\ stack' = SetTop(set_rect(Top))

\* The panic of a failed assertion unwinds the stack: the Strip of the
\* innermost closure is dropped (one turn of its loop per step), then its
\* frame is left and the enclosing closure's Strip is dropped in turn.
Unwind ==
    /\ Top.pc \in {"panic", "unwind"}
    /\ stack' =
         IF Top.sizes # <<>> THEN SetTop(empty(Top))
         ELSE IF Len(stack) > 1
              THEN [SubSeq(stack, 1, Len(stack) - 1) EXCEPT ![Len(stack) - 1].pc = "unwind"]
              ELSE SetTop([Top EXCEPT !.pc = "aborted"])

Next ==
    \/ \E s \in Size : Size_(s)
    \/ \E s \in Size, count \in 0..MaxCount : Sizes_(s, count)
    \/ Horizontal
    \/ Vertical
    \/ Unused
    \/ Empty
    \/ Cell
    \/ CellClip
    \/ StripOp
    \/ StripNoclip
    \/ CellReturn
    \/ Return
    \/ Drop
    \/ SetRect
    \/ Unwind

Spec == Init /\ [][Next]_vars

\* The program is sequential: once the closure has returned, the drop of the
\* Strip and then set_rect are the next things horizontal / vertical do.
FairSpec == Spec /\ WF_vars(Drop) /\ WF_vars(SetRect)

\* ------------------------------------------------------------------ claims
Frames == {stack[i] : i \in DOMAIN stack}

\* The activation has been finalized: it has a Strip.
Finalized(f) == f.pc \notin {"builder", "unused"}

\* The number of lengths the Strip was built from.
K(f) == Len(f.lengths)

\* The extent and the gap the claims expect the resolver to be given.
T(f) == IF f.direction = "Horizontal" THEN f.ui.w - f.ui.sx ELSE f.ui.h - f.ui.sy

Gap(f) == IF f.direction = "Horizontal" THEN f.ui.sx ELSE f.ui.sy

\* The extent of a Layout call along the strip's axis, and across it.
MainAxis(f) == IF f.direction = "Horizontal" THEN f.last.width ELSE f.last.height

CrossAxis(f) == IF f.direction = "Horizontal" THEN f.last.height ELSE f.last.width

\* C1: when the closure has placed j cells of a Strip built from K lengths
\* and returned, Drop places exactly K - j more cells, all of them empty, so
\* the Layout has been given exactly K cells when the Strip is gone.
C1_Drain ==
    \A f \in Frames :
        f.pc \in {"drop", "dropped", "done"} =>
            /\ f.emitted <= f.placed
            /\ f.placed + Len(f.sizes) = K(f)
            /\ f.placed > f.emitted => f.last.op = "empty"
            /\ f.pc \in {"dropped", "done"} =>
                   /\ f.sizes = <<>>
                   /\ f.placed - f.emitted = K(f) - f.emitted
                   /\ f.placed = K(f)

C1_Witness ==
    \E f \in Frames :
        /\ f.pc = "done"
        /\ f.emitted >= 1
        /\ K(f) - f.emitted >= 2
        /\ f.placed = K(f)

\* C2: a cell operation (empty, cell, cell_clip, strip, strip_noclip) on a
\* Strip whose K lengths are all used panics at once: no Layout call is
\* made, the queue is untouched and no closure runs (no nested builder is
\* created).
C2_Violation ==
    [][ (Top.pc = "strip" /\ Top.sizes = <<>>
         /\ (Empty \/ Cell \/ CellClip \/ StripOp \/ StripNoclip))
        => /\ Len(stack') = Len(stack)
           /\ stack'[Len(stack)].pc = "panic"
           /\ stack'[Len(stack)].placed = Top.placed
           /\ stack'[Len(stack)].placed = K(Top)
           /\ stack'[Len(stack)].last = Top.last
           /\ stack'[Len(stack)].sizes = <<>> ]_vars

C2_Witness ==
    \E f \in Frames : f.pc = "panic" /\ K(f) >= 1 /\ f.placed = K(f)

\* C3: the lengths are used first in, first out: what is left in the queue
\* is always the resolved lengths without their first `placed` elements, and
\* the i-th cell placed, whoever placed it, has the i-th length on the
\* strip's axis.
C3_Fifo ==
    \A f \in Frames :
        Finalized(f) =>
            /\ f.placed <= K(f)
            /\ f.sizes = SubSeq(f.lengths, f.placed + 1, K(f))
            /\ f.placed >= 1 => MainAxis(f) = CellSize_Absolute(f.lengths[f.placed])

C3_Witness ==
    \E f \in Frames :
        /\ f.pc = "drop"
        /\ K(f) = 3
        /\ f.placed = 2
        /\ f.emitted = 1
        /\ f.lengths[1] # f.lengths[2]
        /\ f.lengths[2] # f.lengths[3]

\* C4: a Strip built from N hints starts with N lengths in the hints' order
\* (an Absolute hint has its value at its place, a RemainderMinimum at
\* least its minimum, all Remainder hints the same length), and N cells
\* have been placed when the Layout is asked for its rectangle.
C4_Lengths ==
    \A f \in Frames :
        Finalized(f) =>
            /\ K(f) = Len(f.sizing)
            /\ f.placed + Len(f.sizes) = Len(f.sizing)
            /\ \A i \in DOMAIN f.sizing :
                   /\ f.sizing[i].kind = "Absolute" => f.lengths[i] = f.sizing[i].v * Unit
                   /\ f.sizing[i].kind = "RemainderMinimum"
                          => f.lengths[i] >= f.sizing[i].v * Unit
                   /\ \A j \in DOMAIN f.sizing :
                          f.sizing[i].kind = "Remainder" /\ f.sizing[j].kind = "Remainder"
                              => f.lengths[i] = f.lengths[j]
            /\ f.pc = "done" => f.placed = Len(f.sizing)

C4_Witness ==
    \E f \in Frames :
        /\ f.pc = "done"
        /\ f.direction = "Horizontal"
        /\ Len(f.sizing) = 3
        /\ f.sizing[1].kind = "Remainder"
        /\ f.sizing[2].kind = "Absolute"
        /\ f.sizing[3].kind = "RemainderMinimum"
        /\ f.placed = 3

\* C5: every cell is placed with the resolved length on the strip's axis
\* and "fill" across it: (Absolute(len), Remainder) as (width, height) in a
\* horizontal strip, (Remainder, Absolute(len)) in a vertical one.
C5_CrossAxisFills ==
    \A f \in Frames :
        Finalized(f) /\ f.placed >= 1 =>
            /\ f.direction = "Horizontal" =>
                   /\ f.last.width = CellSize_Absolute(f.lengths[f.placed])
                   /\ f.last.height = CellSize_Remainder
            /\ f.direction = "Vertical" =>
                   /\ f.last.width = CellSize_Remainder
                   /\ f.last.height = CellSize_Absolute(f.lengths[f.placed])

C5_Witness ==
    \E f \in Frames :
        /\ f.direction = "Vertical"
        /\ f.last.op = "add"
        /\ f.last.width = CellSize_Remainder
        /\ f.last.height = CellSize_Absolute(40 * Unit)

\* C6: horizontal resolves with the available width less item_spacing.x and
\* the gap item_spacing.x, vertical with the available height less
\* item_spacing.y and the gap item_spacing.y: a lone Remainder hint gets
\* exactly that extent, two of them share it less one gap.
C6_OneSpacingOff ==
    \A f \in Frames :
        Finalized(f) =>
            /\ f.direction = "Horizontal" =>
                   f.lengths = into_lengths(f.sizing, f.ui.w - f.ui.sx, f.ui.sx)
            /\ f.direction = "Vertical" =>
                   f.lengths = into_lengths(f.sizing, f.ui.h - f.ui.sy, f.ui.sy)
            /\ (Len(f.sizing) = 1 /\ f.sizing[1].kind = "Remainder") =>
                   f.lengths[1] = T(f) * Unit
            /\ (Len(f.sizing) = 2 /\ \A i \in 1..2 : f.sizing[i].kind = "Remainder") =>
                   f.lengths[1] + f.lengths[2] = (T(f) - Gap(f)) * Unit

C6_Witness ==
    \E f \in Frames :
        /\ f.direction = "Horizontal"
        /\ f.ui.sx > 0
        /\ f.ui.sx # f.ui.sy
        /\ f.ui.w # f.ui.h
        /\ Len(f.sizing) = 2
        /\ \A i \in 1..2 : f.sizing[i].kind = "Remainder"
        /\ f.lengths[1] * 2 = (f.ui.w - 2 * f.ui.sx) * Unit

\* The leftover is negative: T < totalFixed + (N-1)*s.
Oversubscribed(f) == T(f) < SumFixed(f.sizing) + (Len(f.sizing) - 1) * Gap(f)

\* C7 as stated: when the leftover is negative every flexible length is
\* exactly 0, and no length is ever negative.
C7_AsStated ==
    \A f \in Frames :
        Finalized(f) =>
            /\ \A i \in DOMAIN f.lengths : f.lengths[i] >= 0
            /\ Oversubscribed(f) =>
                   \A i \in DOMAIN f.sizing :
                       IsFlexible(f.sizing[i]) => f.lengths[i] = 0

\* C7, amended: when the leftover is negative every Remainder length is
\* exactly 0 and every RemainderMinimum length is exactly its minimum; no
\* length is ever negative.
C7_NegativeLeftover ==
    \A f \in Frames :
        Finalized(f) =>
            /\ \A i \in DOMAIN f.lengths : f.lengths[i] >= 0
            /\ Oversubscribed(f) =>
                   \A i \in DOMAIN f.sizing :
                       /\ f.sizing[i].kind = "Remainder" => f.lengths[i] = 0
                       /\ f.sizing[i].kind = "RemainderMinimum"
                              => f.lengths[i] = f.sizing[i].v * Unit

C7_Witness ==
    \E f \in Frames :
        /\ Finalized(f)
        /\ Oversubscribed(f)
        /\ \E i \in DOMAIN f.sizing : f.sizing[i].kind = "Remainder" /\ f.lengths[i] = 0
        /\ \E i \in DOMAIN f.sizing : f.sizing[i].kind = "RemainderMinimum"

\* C8: a vertical strip of [RemainderMinimum(100), Absolute(40)] on an
\* available height of 120 has the lengths [100, 40].
C8_MinimumHolds ==
    \A f \in Frames :
        ( /\ f.direction = "Vertical"
          /\ f.ui.h = 120
          /\ f.sizing = << [kind |-> "RemainderMinimum", v |-> 100],
                           [kind |-> "Absolute", v |-> 40] >> )
        => f.lengths = << 100 * Unit, 40 * Unit >>

C8_Witness ==
    \E f \in Frames :
        /\ f.direction = "Vertical"
        /\ f.ui.h = 120
        /\ f.sizing = << [kind |-> "RemainderMinimum", v |-> 100],
                         [kind |-> "Absolute", v |-> 40] >>
        /\ f.pc = "done"

\* C9: a horizontal strip of [Absolute(40), Remainder, Absolute(40)] on an
\* available width of 200 with spacing 0 has the lengths [40, 120, 40].
C9_SingleRemainder ==
    \A f \in Frames :
        ( /\ f.direction = "Horizontal"
          /\ f.ui.w = 200
          /\ f.ui.sx = 0
          /\ f.sizing = << [kind |-> "Absolute", v |-> 40],
                           [kind |-> "Remainder", v |-> 0],
                           [kind |-> "Absolute", v |-> 40] >> )
        => f.lengths = << 40 * Unit, 120 * Unit, 40 * Unit >>

C9_Witness ==
    \E f \in Frames :
        /\ f.direction = "Horizontal"
        /\ f.ui.w = 200
        /\ f.ui.sx = 0
        /\ f.sizing = << [kind |-> "Absolute", v |-> 40],
                         [kind |-> "Remainder", v |-> 0],
                         [kind |-> "Absolute", v |-> 40] >>
        /\ f.pc = "strip"

\* C10: when all N hints are Remainder and T >= (N-1)*s, every length is
\* (T - (N-1)*s) / N.
C10_EqualSplit ==
    \A f \in Frames :
        ( /\ Finalized(f)
          /\ Len(f.sizing) >= 1
          /\ \A i \in DOMAIN f.sizing : f.sizing[i].kind = "Remainder"
          /\ T(f) >= (Len(f.sizing) - 1) * Gap(f) )
        => \A i \in DOMAIN f.lengths :
               f.lengths[i] * Len(f.sizing)
                   = Max(0, T(f) - (Len(f.sizing) - 1) * Gap(f)) * Unit

C10_Witness ==
    \E f \in Frames :
        /\ Finalized(f)
        /\ Len(f.sizing) = 3
        /\ \A i \in DOMAIN f.sizing : f.sizing[i].kind = "Remainder"
        /\ Gap(f) > 0
        /\ f.lengths[1] > 0

\* The sum of the lengths resolved for the Absolute hints, and of the values
\* those hints declare.
RECURSIVE SumAbsoluteLengths(_, _)
SumAbsoluteLengths(sizing, lengths) ==
    IF sizing = <<>> THEN 0
    ELSE (IF Head(sizing).kind = "Absolute" THEN Head(lengths) ELSE 0)
         + SumAbsoluteLengths(Tail(sizing), Tail(lengths))

NumAbsolute(sizing) == Len(sizing) - NumFlexible(sizing)

\* C11: the lengths a Strip gets for its Absolute hints add up to the sum of
\* the declared values, whatever the available extent, also when the hints
\* ask for more than is available.
C11_FixedSum ==
    \A f \in Frames :
        Finalized(f) =>
            /\ Len(f.lengths) = Len(f.sizing)
            /\ SumAbsoluteLengths(f.sizing, f.lengths) = SumFixed(f.sizing) * Unit
            /\ SumFixed(f.sizing) = 40 * NumAbsolute(f.sizing)

C11_Witness ==
    \E f \in Frames :
        /\ Finalized(f)
        /\ Oversubscribed(f)
        /\ NumAbsolute(f.sizing) = 2
        /\ NumFlexible(f.sizing) = 1
        /\ f.ui.sx > 0
        /\ f.direction = "Horizontal"
        /\ SumAbsoluteLengths(f.sizing, f.lengths) = 80 * Unit

\* C12: a builder finalized with no hint gives its closure a Strip with an
\* empty queue; dropping it drains nothing, the Layout is given no cell at
\* all, and set_rect is still called once the closure has returned.
C12_NoSizes ==
    \A f \in Frames :
        (Finalized(f) /\ f.sizing = <<>>) =>
            /\ f.sizes = <<>>
            /\ f.lengths = <<>>
            /\ f.placed = 0
            /\ f.emitted = 0
            /\ f.last = NoCall
            /\ f.pc = "dropped" => f.rect = 0
            /\ f.pc = "done" => f.rect = 1

C12_Witness ==
    \E f \in Frames :
        /\ f.pc = "done"
        /\ f.sizing = <<>>
        /\ f.direction = "Vertical"
        /\ f.placed = 0
        /\ f.last.op = "none"
        /\ f.rect = 1

\* `count` copies of one hint.
Repeat(s, count) == [i \in 1..count |-> s]

\* C13: sizes(spec, count) puts exactly `count` copies of spec behind the
\* hints the builder already holds and changes nothing else; that is what
\* `count` calls of size(spec) give, and with count = 0 nothing changes.
C13_SizesAppends ==
    [][ \A s \in Size, count \in 0..MaxCount :
            Sizes_(s, count) =>
                /\ Len(stack') = Len(stack)
                /\ stack'[Len(stack)] = [Top EXCEPT !.sizing = Top.sizing \o Repeat(s, count)]
                /\ SubSeq(stack'[Len(stack)].sizing, 1, Len(Top.sizing)) = Top.sizing
                /\ count = 0 => stack' = stack
                /\ count = 1 => stack' = SetTop(size(Top, s))
                /\ count = 2 => stack' = SetTop(size(size(Top, s), s))
                /\ count = 3 => stack' = SetTop(size(size(size(Top, s), s), s)) ]_vars

C13_Witness ==
    /\ Top.pc = "builder"
    /\ Top.sizing = << [kind |-> "Absolute", v |-> 40],
                       [kind |-> "RemainderMinimum", v |-> 100],
                       [kind |-> "RemainderMinimum", v |-> 100] >>

\* C14: a nested strip takes exactly one length of the enclosing Strip and
\* starts from a builder without hints; while the nested builder and its
\* Strip run (hints added, finalized or not, cells placed, drained), the
\* enclosing Strip's queue, cell count and last cell stay as they were, and
\* when the nested closure returns the enclosing strip is exactly as it was
\* right after it placed the cell.
C14_NestedStrip ==
    [][ /\ \A i \in 1..(Len(stack) - 1) :
               /\ i \in DOMAIN stack'
               /\ stack'[i].sizes = stack[i].sizes
               /\ stack'[i].lengths = stack[i].lengths
               /\ stack'[i].placed = stack[i].placed
               /\ stack'[i].last = stack[i].last
        /\ Len(stack') = Len(stack) + 1 =>
               /\ Top.pc = "strip"
               /\ Top.sizes # <<>>
               /\ stack'[Len(stack)].sizes = Tail(Top.sizes)
               /\ stack'[Len(stack)].placed = Top.placed + 1
               /\ stack'[Len(stack)].last.op = "add"
               /\ stack'[Len(stack')].pc = "builder"
               /\ stack'[Len(stack')].sizing = <<>>
               /\ stack'[Len(stack')].sizes = <<>>
               /\ stack'[Len(stack')].placed = 0
        /\ (Len(stack') = Len(stack) - 1 /\ Top.pc \in {"done", "unused"}) =>
               stack' = SubSeq(stack, 1, Len(stack) - 1) ]_vars

C14_Witness ==
    /\ Len(stack) = 2
    /\ stack[2].pc = "done"
    /\ Len(stack[2].sizing) >= 1
    /\ stack[2].placed = Len(stack[2].sizing)
    /\ stack[1].pc = "strip"
    /\ stack[1].last.op = "add"
    /\ stack[1].placed = 1
    /\ stack[1].sizes = Tail(stack[1].lengths)
    /\ stack[1].sizes # <<>>

\* The cell a step placed on the Strip that was innermost before the step.
Placed(after, before, clip) ==
    /\ after.last.op = "add"
    /\ after.last.clip = clip
    /\ after.sizes = Tail(before.sizes)
    /\ after.placed = before.placed + 1
    /\ after.last.width = IF before.direction = "Horizontal"
                          THEN CellSize_Absolute(Head(before.sizes)) ELSE CellSize_Remainder
    /\ after.last.height = IF before.direction = "Horizontal"
                           THEN CellSize_Remainder ELSE CellSize_Absolute(Head(before.sizes))

\* C15: cell and strip place their cell with clip = false, cell_clip and
\* strip_noclip with clip = true; apart from that flag the two of a pair
\* do the same: the same length leaves the queue, the cell has the same
\* extents, and both nested variants start a builder without hints.
C15_ClipOnly ==
    [][ (Top.pc = "strip" /\ Top.sizes # <<>>) =>
            /\ Cell => (Len(stack') = Len(stack) /\ Placed(stack'[Len(stack)], Top, FALSE))
            /\ CellClip => (Len(stack') = Len(stack) /\ Placed(stack'[Len(stack)], Top, TRUE))
            /\ StripOp => /\ Placed(stack'[Len(stack)], Top, FALSE)
                          /\ stack' = Append(SubSeq(stack', 1, Len(stack)),
                                             StripBuilder_new(Top.ui))
            /\ StripNoclip => /\ Placed(stack'[Len(stack)], Top, TRUE)
                              /\ stack' = Append(SubSeq(stack', 1, Len(stack)),
                                                 StripBuilder_new(Top.ui))
            /\ [_cell(Top, TRUE) EXCEPT !.last.clip = FALSE] = _cell(Top, FALSE) ]_vars

C15_Witness ==
    /\ Len(stack) = 2
    /\ stack[1].last.op = "add"
    /\ stack[1].last.clip = TRUE
    /\ stack[1].placed = 2
    /\ stack[2].pc = "strip"
    /\ stack[2].last.op = "add"
    /\ stack[2].last.clip = FALSE

\* C16: set_rect is called once per horizontal / vertical, and only when the
\* closure has returned and the Strip has been dropped: all K cells, those
\* Drop placed included, are on the Layout, the queue is empty, and no cell
\* of that strip is placed afterwards.
C16_SetRectLast ==
    \A f \in Frames :
        /\ f.rect \in {0, 1}
        /\ f.rect = 1 <=> f.pc = "done"
        /\ f.rect = 1 =>
               /\ Finalized(f)
               /\ f.sizes = <<>>
               /\ f.placed = K(f)
               /\ f.emitted <= f.placed
               /\ f.placed > f.emitted => f.last.op = "empty"

C16_Witness ==
    \E f \in Frames :
        /\ f.rect = 1
        /\ K(f) = 3
        /\ f.emitted = 1
        /\ f.placed = 3
        /\ f.last.op = "empty"

\* C17: when the assertion of a cell operation has failed, the queue of that
\* Strip is empty and exactly its K cells are placed; dropping the Strip
\* while the panic unwinds places nothing more and leaves the frame as it
\* is, and no step of the unwinding fails the assertion again.
C17_NoDrainAfterViolation ==
    [][ /\ Top.pc = "panic" =>
               /\ Top.sizes = <<>>
               /\ Top.placed = K(Top)
               /\ Top.emitted = Top.placed
               /\ \/ stack' = SetTop([Top EXCEPT !.pc = "aborted"])
                  \/ /\ Len(stack) > 1
                     /\ stack' = [SubSeq(stack, 1, Len(stack) - 1)
                                     EXCEPT ![Len(stack) - 1].pc = "unwind"]
        /\ Top.pc \in {"panic", "unwind"} =>
               \A i \in DOMAIN stack' : stack'[i].pc # "panic"
        /\ Top.pc = "aborted" => stack' = stack ]_vars

C17_Witness ==
    /\ Len(stack) = 1
    /\ Top.pc = "aborted"
    /\ K(Top) = 2
    /\ Top.sizes = <<>>
    /\ Top.placed = 2
    /\ Top.emitted = 2

\* C18: every turn of Drop's loop takes exactly one length off the queue and
\* places one empty cell without failing the assertion, the loop ends
\* exactly when the queue is empty, and once the closure has returned the
\* pass goes on to call set_rect with the queue empty.
C18_DropTerminates ==
    /\ [][ Top.pc = "drop" =>
               /\ Len(stack') = Len(stack)
               /\ Top.sizes # <<>> =>
                      /\ stack'[Len(stack)].pc = "drop"
                      /\ stack'[Len(stack)].sizes = Tail(Top.sizes)
                      /\ stack'[Len(stack)].placed = Top.placed + 1
                      /\ stack'[Len(stack)].last.op = "empty"
               /\ Top.sizes = <<>> => stack' = SetTop([Top EXCEPT !.pc = "dropped"]) ]_vars
    /\ \A d \in 1..MaxDepth :
           (Len(stack) = d /\ Top.pc = "drop")
               ~> (Len(stack) = d /\ Top.pc = "done" /\ Top.rect = 1 /\ Top.sizes = <<>>)

C18_Witness ==
    /\ Top.pc = "done"
    /\ Top.rect = 1
    /\ K(Top) = 3
    /\ Top.emitted = 0
    /\ Top.placed = 3

====
